---- MODULE Spec2Model ----
(***************************************************************************)
(* Model of the execution package's ModelRegistry (model-registry.ts):     *)
(* an ordered list of ModelConfig rules, a memoizing cache keyed by model  *)
(* identifier, and the operations register / getConfig / accessors /       *)
(* reset / clearCache / getAllConfigs.                                     *)
(*                                                                         *)
(* Strings are sequences of one-character strings so that RegExp.test and  *)
(* === can be computed character by character.  Optional fields of a       *)
(* ModelConfig are sequences of length 0 (unset) or 1 (set).               *)
(***************************************************************************)
EXTENDS Integers, Sequences, FiniteSets, TLC

VARIABLES
    configs,    \* this.configs : the rule array, index 1 is checked first
    cache,      \* this.cache   : Map<string, ModelConfig>, a function on its keys
    lastIndex,  \* lastIndex of the RegExp of each caller-owned rule object
    nextOid,    \* identity given to the next object literal of registerDefaults
    last,       \* the most recent call: operation, argument, return value, throw
    held,       \* a result of getConfig the caller still holds (config1 of the tests)
    snapshot,   \* the array a caller got from getAllConfigs and may edit
    globalRegistry, \* the module variable globalRegistry: null or an instance
    heap,       \* the registries made by getModelRegistry, in order of construction
    constructed, \* registries made by getModelRegistry since resetModelRegistry
    callers,    \* the concurrent callers of getModelRegistry
    running,    \* the registry method in progress and the statements it has left
    request,    \* the Request object made by createRequest
    logger      \* the logger made by wrapLogger and the lines its target received

vars == <<configs, cache, lastIndex, nextOid, last, held, snapshot,
          globalRegistry, heap, constructed, callers, running, request, logger>>

\* the module-level state, the method in progress, the request and the
\* logger, which the calls on a registry made with new ModelRegistry() leave
\* alone
moduleVars == <<globalRegistry, heap, constructed, callers, running, request, logger>>

----------------------------------------------------------------------------
(* Bounds of the model *)

\* custom rules a registry may hold beyond the five defaults
MaxCustom == 3
\* reset() calls explored
MaxResets == 1
\* edits a caller makes to one array returned by getAllConfigs
MaxEdits == 1
\* cache entries explored on the defaults-only registry
MaxProbes == 1
\* registries getModelRegistry may construct
MaxInstances == 2
\* callers that invoke getModelRegistry concurrently
MaxCallers == 3
\* addMessage calls on one request
MaxMessages == 3
\* lines written through one wrapped logger
MaxLines == 2
\* custom rules per registry where the default registry stands beside a
\* registry of the caller's own, and where methods run statement by statement
MaxConfigured == 1

----------------------------------------------------------------------------
(* Strings and characters *)

LowerLetters == <<"a","b","c","d","e","f","g","h","i","j","k","l","m",
                  "n","o","p","q","r","s","t","u","v","w","x","y","z">>
UpperLetters == <<"A","B","C","D","E","F","G","H","I","J","K","L","M",
                  "N","O","P","Q","R","S","T","U","V","W","X","Y","Z">>
Digits == {"0","1","2","3","4","5","6","7","8","9"}

\* Canonicalize of the RegExp ignoreCase comparison: the upper-case form
Canonicalize(ch) ==
    IF \E i \in 1..26 : LowerLetters[i] = ch
    THEN UpperLetters[CHOOSE i \in 1..26 : LowerLetters[i] = ch]
    ELSE ch

Min(S) == CHOOSE x \in S : \A y \in S : x <= y

----------------------------------------------------------------------------
\* RegExp: the patterns of the registry have the shape
\*     [^] literal [ \d+ | .* ]   with the flags i and g.
\* anchored: a leading ^; literal: the literal characters; tail: what
\* follows them: "none", "digits" for \d+, "any" for dot-star.

RegExp(anchored, literal, tail, ignoreCase, global) ==
    [anchored |-> anchored, literal |-> literal, tail |-> tail,
     ignoreCase |-> ignoreCase, global |-> global]

\* the comparison of a RegExp that ignores its i flag
CharEqCaseSensitive(re, a, b) == a = b

CharEq(re, a, b) ==
    IF re.ignoreCase THEN Canonicalize(a) = Canonicalize(b) ELSE a = b

\* the literal of re matches str at offset k (0-based)
LiteralAt(re, str, k) ==
    /\ k + Len(re.literal) <= Len(str)
    /\ \A j \in 1..Len(re.literal) : CharEq(re, str[k + j], re.literal[j])

\* number of consecutive digits of str from offset k (0-based)
DigitRun(str, k) ==
    LET stops == {j \in k..Len(str) : j = Len(str) \/ str[j + 1] \notin Digits}
    IN  Min(stops) - k

\* re matches str starting exactly at offset k
MatchesAt(re, str, k) ==
    /\ re.anchored => k = 0
    /\ LiteralAt(re, str, k)
    /\ re.tail = "digits" => DigitRun(str, k + Len(re.literal)) >= 1

\* end offset of the (greedy) match of re that starts at offset k
MatchEnd(re, str, k) ==
    CASE re.tail = "none"   -> k + Len(re.literal)
      [] re.tail = "digits" -> k + Len(re.literal) + DigitRun(str, k + Len(re.literal))
      [] re.tail = "any"    -> Len(str)

\* RegExp.prototype.test: with the g flag the search starts at lastIndex and
\* lastIndex is left at the end of the match, or at 0 when there is none;
\* without it the search starts at 0 and lastIndex is not touched.
RegExpTest(re, li, str) ==
    LET start == IF re.global THEN li ELSE 0
        at    == IF start > Len(str) THEN {}
                 ELSE {k \in start..Len(str) : MatchesAt(re, str, k)}
    IN  IF at = {}
        THEN [ok |-> FALSE, lastIndex |-> IF re.global THEN 0 ELSE li]
        ELSE [ok |-> TRUE,
              lastIndex |-> IF re.global THEN MatchEnd(re, str, Min(at)) ELSE li]

\* whether the pattern describes str at all: a test from lastIndex 0
PatternMatches(re, str) == RegExpTest(re, 0, str).ok

----------------------------------------------------------------------------
(* ModelConfig objects (types.ts).  oid is the identity of the object: two *)
(* rules are the same object iff their oid is equal.                       *)

Unset == <<>>
Set(v) == <<v>>
IsSet(opt) == opt # <<>>

ModelConfig(oid, pattern, exactMatch, personaRole, encoding, supportsToolCalls, family, description) ==
    [oid |-> oid, pattern |-> pattern, exactMatch |-> exactMatch,
     personaRole |-> personaRole, encoding |-> encoding,
     supportsToolCalls |-> supportsToolCalls, family |-> family,
     description |-> description]

\* JavaScript truthiness of config.exactMatch (a string: "" is falsy) and of
\* config.pattern (an object: always truthy when present)
TruthyString(opt) == IsSet(opt) /\ opt[1] # <<>>
TruthyObject(opt) == IsSet(opt)

\* the rule without its identity: what an observer comparing by value sees
Content(rule) == [f \in (DOMAIN rule) \ {"oid"} |-> rule[f]]

(* Model identifiers and matcher strings *)
Id_gpt4o    == <<"g", "p", "t", "-", "4", "o">>
Id_mymodel  == <<"m", "y", "-", "m", "o", "d", "e", "l">>
Id_llama3   == <<"l", "l", "a", "m", "a", "-", "3">>
Id_empty    == <<>>

\* the identifiers looked up on a registry that also holds custom rules
ModelIds == {Id_gpt4o, Id_mymodel, Id_llama3}

(* The rule objects a caller passes to register().  CallerRules[i].oid = i. *)
CallerRules == <<
    \* the custom exact-match rule of the tests (no supportsToolCalls, family custom)
    ModelConfig(1, Unset, Set(Id_mymodel), "developer", "cl100k_base",
                Unset, Set("custom"), Unset),
    \* /^llama/i
    ModelConfig(2, Set(RegExp(TRUE, <<"l", "l", "a", "m", "a">>, "none", TRUE, FALSE)), Unset,
                "system", "cl100k_base", Set(FALSE), Set("llama"), Unset),
    \* /^llama/g : a pattern object with the global flag
    ModelConfig(3, Set(RegExp(TRUE, <<"l", "l", "a", "m", "a">>, "none", FALSE, TRUE)), Unset,
                "system", "o200k_base", Set(TRUE), Set("llama-g"), Unset),
    \* both matchers: exactMatch "gpt-4o" and /^my/i
    ModelConfig(4, Set(RegExp(TRUE, <<"m", "y">>, "none", TRUE, FALSE)), Set(Id_gpt4o),
                "developer", "o200k_base", Unset, Set("both"), Unset),
    \* neither matcher
    ModelConfig(5, Unset, Unset, "system", "gpt-4o", Unset, Unset, Unset),
    \* exactMatch "" and no pattern
    ModelConfig(6, Unset, Set(Id_empty), "system", "gpt-4o", Unset, Set("empty"), Unset),
    \* a caller's own universal pattern (dot-star), family unset
    ModelConfig(7, Set(RegExp(FALSE, <<>>, "any", FALSE, FALSE)), Unset,
                "developer", "cl100k_base", Unset, Unset, Unset)
>>

CallerOids == 1..Len(CallerRules)
\* identity of the first object literal registerDefaults ever creates
FirstDefaultOid == Len(CallerRules) + 1

----------------------------------------------------------------------------
(* The registry's methods as functions of the state they read and write *)

EmptyCache == [m \in {} |-> Unset]

\* Map.set
CacheSet(cch, model, config) ==
    [k \in (DOMAIN cch) \cup {model} |-> IF k = model THEN config ELSE cch[k]]

MalformedRule ==
    [name |-> "Error", message |-> "Model config must have either pattern or exactMatch"]
NoConfiguration(model) ==
    [name |-> "Error", message |-> "No configuration found for model: ", model |-> model]

Debug(message) == [level |-> "debug", message |-> message]

\* lastIndex of config.pattern.  The RegExp literals of registerDefaults carry
\* no g flag, so test() never writes their lastIndex and it stays 0.
LastIndexOf(li, config) == IF config.oid \in DOMAIN li THEN li[config.oid] ELSE 0
WithLastIndex(li, config, n) ==
    IF config.oid \in DOMAIN li THEN [li EXCEPT ![config.oid] = n] ELSE li

\* register(config) before validating: the rule is already in the list when
\* the malformed-rule error is raised
registerUnshiftFirst(cfgs, cch, config) ==
    IF ~TruthyObject(config.pattern) /\ ~TruthyString(config.exactMatch)
    THEN [configs |-> <<config>> \o cfgs, cache |-> cch,
          threw |-> Set(MalformedRule), logged |-> <<>>]
    ELSE [configs |-> <<config>> \o cfgs, cache |-> EmptyCache,
          threw |-> Unset, logged |-> <<Debug("Registered model config")>>]

\* register(config) without the validation
registerUnchecked(cfgs, cch, config) ==
    [configs |-> <<config>> \o cfgs, cache |-> EmptyCache,
     threw |-> Unset, logged |-> <<Debug("Registered model config")>>]

\* register(config) raising a TypeError for the rule without a matcher
registerTypeError(cfgs, cch, config) ==
    IF ~TruthyObject(config.pattern) /\ ~TruthyString(config.exactMatch)
    THEN [configs |-> cfgs, cache |-> cch,
          threw |-> Set([name |-> "TypeError", message |-> MalformedRule.message]),
          logged |-> <<>>]
    ELSE [configs |-> <<config>> \o cfgs, cache |-> EmptyCache,
          threw |-> Unset, logged |-> <<Debug("Registered model config")>>]

\* register(config) that leaves the list alone when it holds config already
registerDedup(cfgs, cch, config) ==
    IF ~TruthyObject(config.pattern) /\ ~TruthyString(config.exactMatch)
    THEN [configs |-> cfgs, cache |-> cch,
          threw |-> Set(MalformedRule), logged |-> <<>>]
    ELSE [configs |-> IF \E k \in 1..Len(cfgs) : cfgs[k] = config
                      THEN cfgs ELSE <<config>> \o cfgs,
          cache |-> EmptyCache,
          threw |-> Unset, logged |-> <<Debug("Registered model config")>>]

\* ModelRegistry.register
register(cfgs, cch, config) ==
    IF ~TruthyObject(config.pattern) /\ ~TruthyString(config.exactMatch)
    THEN [configs |-> cfgs, cache |-> cch,
          threw |-> Set(MalformedRule), logged |-> <<>>]
    ELSE [configs |-> <<config>> \o cfgs, cache |-> EmptyCache,
          threw |-> Unset, logged |-> <<Debug("Registered model config")>>]

\* the five object literals of registerDefaults, in the order they are
\* registered; each call creates new objects, oid0 .. oid0 + 4
\* the five literals with the GPT-4 pattern widened to /^g/i, which also
\* matches the gemini identifiers
DefaultLiteralsOverlapping(oid0) == <<
    ModelConfig(oid0, Set(RegExp(FALSE, <<>>, "any", FALSE, FALSE)), Unset,
                "system", "gpt-4o", Set(TRUE), Set("unknown"),
                Set("Default fallback configuration")),
    ModelConfig(oid0 + 1, Set(RegExp(TRUE, <<"c", "l", "a", "u", "d", "e">>, "none", TRUE, FALSE)), Unset,
                "system", "cl100k_base", Set(TRUE), Set("claude"),
                Set("Claude family models")),
    ModelConfig(oid0 + 2, Set(RegExp(TRUE, <<"o">>, "digits", TRUE, FALSE)), Unset,
                "developer", "gpt-4o", Set(TRUE), Set("o-series"),
                Set("O-series reasoning models")),
    ModelConfig(oid0 + 3, Set(RegExp(TRUE, <<"g">>, "none", TRUE, FALSE)), Unset,
                "system", "gpt-4o", Set(TRUE), Set("gpt-4"),
                Set("GPT-4 family models")),
    ModelConfig(oid0 + 4, Set(RegExp(TRUE, <<"g", "e", "m", "i", "n", "i">>, "none", TRUE, FALSE)), Unset,
                "system", "cl100k_base", Set(TRUE), Set("gemini"),
                Set("Gemini family models"))
>>

DefaultLiterals(oid0) == <<
    ModelConfig(oid0, Set(RegExp(FALSE, <<>>, "any", FALSE, FALSE)), Unset,
                "system", "gpt-4o", Set(TRUE), Set("unknown"),
                Set("Default fallback configuration")),
    ModelConfig(oid0 + 1, Set(RegExp(TRUE, <<"c", "l", "a", "u", "d", "e">>, "none", TRUE, FALSE)), Unset,
                "system", "cl100k_base", Set(TRUE), Set("claude"),
                Set("Claude family models")),
    ModelConfig(oid0 + 2, Set(RegExp(TRUE, <<"o">>, "digits", TRUE, FALSE)), Unset,
                "developer", "gpt-4o", Set(TRUE), Set("o-series"),
                Set("O-series reasoning models")),
    ModelConfig(oid0 + 3, Set(RegExp(TRUE, <<"g", "p", "t", "-", "4">>, "none", TRUE, FALSE)), Unset,
                "system", "gpt-4o", Set(TRUE), Set("gpt-4"),
                Set("GPT-4 family models")),
    ModelConfig(oid0 + 4, Set(RegExp(TRUE, <<"g", "e", "m", "i", "n", "i">>, "none", TRUE, FALSE)), Unset,
                "system", "cl100k_base", Set(TRUE), Set("gemini"),
                Set("Gemini family models"))
>>

NumDefaults == Len(DefaultLiterals(0))

\* the register calls of registerDefaults from the i-th literal on; a throw
\* ends the method
RECURSIVE registerEach(_, _, _, _, _)
registerEach(cfgs, cch, literals, i, logged) ==
    IF i > Len(literals)
    THEN [configs |-> cfgs, cache |-> cch, threw |-> Unset,
          logged |-> Append(logged, Debug("Registered default model configurations"))]
    ELSE LET r == register(cfgs, cch, literals[i])
         IN  IF IsSet(r.threw)
             THEN [configs |-> r.configs, cache |-> r.cache, threw |-> r.threw,
                   logged |-> logged \o r.logged]
             ELSE registerEach(r.configs, r.cache, literals, i + 1, logged \o r.logged)

\* registerDefaults with the fallback registered last instead of first
registerDefaultsFallbackLast(cfgs, cch, oid0) ==
    LET d == DefaultLiterals(oid0)
    IN  registerEach(cfgs, cch, <<d[2], d[3], d[4], d[5], d[1]>>, 1, <<>>)

\* registerDefaults without the fallback literal
registerDefaultsNoFallback(cfgs, cch, oid0) ==
    LET d == DefaultLiterals(oid0)
    IN  registerEach(cfgs, cch, <<d[2], d[3], d[4], d[5]>>, 1, <<>>)

\* ModelRegistry.registerDefaults
registerDefaults(cfgs, cch, oid0) ==
    registerEach(cfgs, cch, DefaultLiterals(oid0), 1, <<>>)

\* the loop of getConfig with "else if": the pattern of a rule that has an
\* exactMatch is not tested
RECURSIVE scanExactOnly(_, _, _, _)
scanExactOnly(cfgs, i, li, model) ==
    IF i > Len(cfgs)
    THEN [found |-> Unset, lastIndex |-> li]
    ELSE LET config == cfgs[i]
         IN  IF TruthyString(config.exactMatch)
             THEN IF config.exactMatch[1] = model
                  THEN [found |-> Set(config), lastIndex |-> li]
                  ELSE scanExactOnly(cfgs, i + 1, li, model)
             ELSE IF TruthyObject(config.pattern)
                  THEN LET t == RegExpTest(config.pattern[1],
                                           LastIndexOf(li, config), model)
                           li2 == WithLastIndex(li, config, t.lastIndex)
                       IN  IF t.ok
                           THEN [found |-> Set(config), lastIndex |-> li2]
                           ELSE scanExactOnly(cfgs, i + 1, li2, model)
                  ELSE scanExactOnly(cfgs, i + 1, li, model)

\* the loop of getConfig from the i-th rule on: the first rule whose
\* exactMatch equals model or whose pattern tests true, and the lastIndex
\* values the tests leave behind
RECURSIVE scan(_, _, _, _)
scan(cfgs, i, li, model) ==
    IF i > Len(cfgs)
    THEN [found |-> Unset, lastIndex |-> li]
    ELSE LET config == cfgs[i]
         IN  IF TruthyString(config.exactMatch) /\ config.exactMatch[1] = model
             THEN [found |-> Set(config), lastIndex |-> li]
             ELSE IF TruthyObject(config.pattern)
                  THEN LET t == RegExpTest(config.pattern[1],
                                           LastIndexOf(li, config), model)
                           li2 == WithLastIndex(li, config, t.lastIndex)
                       IN  IF t.ok
                           THEN [found |-> Set(config), lastIndex |-> li2]
                           ELSE scan(cfgs, i + 1, li2, model)
                  ELSE scan(cfgs, i + 1, li, model)

\* getConfig that stores the rule it found as the only cache entry
getConfigSingleEntry(cfgs, cch, li, model) ==
    IF model \in DOMAIN cch
    THEN [ret |-> Set(cch[model]), cache |-> cch, lastIndex |-> li, threw |-> Unset]
    ELSE LET s == scan(cfgs, 1, li, model)
         IN  IF IsSet(s.found)
             THEN [ret |-> s.found, cache |-> CacheSet(EmptyCache, model, s.found[1]),
                   lastIndex |-> s.lastIndex, threw |-> Unset]
             ELSE [ret |-> Unset, cache |-> cch, lastIndex |-> s.lastIndex,
                   threw |-> Set(NoConfiguration(model))]

\* ModelRegistry.getConfig
getConfig(cfgs, cch, li, model) ==
    IF model \in DOMAIN cch
    THEN [ret |-> Set(cch[model]), cache |-> cch, lastIndex |-> li, threw |-> Unset]
    ELSE LET s == scan(cfgs, 1, li, model)
         IN  IF IsSet(s.found)
             THEN [ret |-> s.found, cache |-> CacheSet(cch, model, s.found[1]),
                   lastIndex |-> s.lastIndex, threw |-> Unset]
             ELSE [ret |-> Unset, cache |-> cch, lastIndex |-> s.lastIndex,
                   threw |-> Set(NoConfiguration(model))]

\* the value an accessor returns, or nothing when getConfig threw
Project(g, value) ==
    [ret |-> IF IsSet(g.threw) THEN Unset ELSE Set(value),
     cache |-> g.cache, lastIndex |-> g.lastIndex, threw |-> g.threw]

\* ModelRegistry.getPersonaRole
getPersonaRole(cfgs, cch, li, model) ==
    LET g == getConfig(cfgs, cch, li, model)
    IN  Project(g, IF IsSet(g.ret) THEN g.ret[1].personaRole ELSE "")

\* ModelRegistry.getEncoding
getEncoding(cfgs, cch, li, model) ==
    LET g == getConfig(cfgs, cch, li, model)
    IN  Project(g, IF IsSet(g.ret) THEN g.ret[1].encoding ELSE "")

\* supportsToolCalls written with || instead of ??: false becomes true
supportsToolCallsOr(cfgs, cch, li, model) ==
    LET g == getConfig(cfgs, cch, li, model)
    IN  Project(g, TRUE)

\* ModelRegistry.supportsToolCalls: config.supportsToolCalls ?? true
supportsToolCalls(cfgs, cch, li, model) ==
    LET g == getConfig(cfgs, cch, li, model)
    IN  Project(g, IF IsSet(g.ret) /\ IsSet(g.ret[1].supportsToolCalls)
                   THEN g.ret[1].supportsToolCalls[1] ELSE TRUE)

\* ModelRegistry.getFamily: the family, or undefined (Unset)
getFamily(cfgs, cch, li, model) ==
    LET g == getConfig(cfgs, cch, li, model)
    IN  Project(g, IF IsSet(g.ret) THEN g.ret[1].family ELSE Unset)

\* reset() that keeps the old array: the defaults are added in front of it
resetKeepConfigs(cfgs, cch, oid0) ==
    LET r == registerDefaults(cfgs, EmptyCache, oid0)
    IN  [configs |-> r.configs, cache |-> r.cache, threw |-> r.threw,
         logged |-> IF IsSet(r.threw) THEN r.logged
                    ELSE Append(r.logged, Debug("Reset model configurations to defaults"))]

\* ModelRegistry.reset
reset(cfgs, cch, oid0) ==
    LET r == registerDefaults(<<>>, EmptyCache, oid0)
    IN  [configs |-> r.configs, cache |-> r.cache, threw |-> r.threw,
         logged |-> IF IsSet(r.threw) THEN r.logged
                    ELSE Append(r.logged, Debug("Reset model configurations to defaults"))]

\* ModelRegistry.clearCache
clearCache(cfgs, cch) ==
    [configs |-> cfgs, cache |-> EmptyCache,
     logged |-> <<Debug("Cleared model configuration cache")>>]

\* getAllConfigs returning this.configs itself
getAllConfigsAlias(cfgs) == [elems |-> cfgs, aliased |-> TRUE]

\* ModelRegistry.getAllConfigs: [...this.configs], a new array with the same
\* elements; aliased says whether the array is this.configs itself
getAllConfigs(cfgs) == [elems |-> cfgs, aliased |-> FALSE]

----------------------------------------------------------------------------
(* The state machine: one action per call a caller can make *)

Call(op, arg, ret, threw, logged) ==
    [op |-> op, arg |-> arg, ret |-> ret, threw |-> threw, logged |-> logged]

\* the caller's array after the registry's array became newConfigs: the same
\* array if it is this.configs itself, untouched otherwise
Follow(snap, newConfigs) ==
    IF IsSet(snap) /\ snap[1].aliased
    THEN Set([snap[1] EXCEPT !.elems = newConfigs])
    ELSE snap

\* the rule the caller holds is from before a register() or reset()
Stale(h) == IF IsSet(h) THEN Set([h[1] EXCEPT !.fresh = FALSE]) ELSE h

\* the callers of getModelRegistry; each has issued no call yet
Callers == 1..MaxCallers
Idle == [pc |-> "idle", seen |-> Unset, received |-> Unset]

\* new ModelRegistry(): empty configs and cache, then registerDefaults();
\* let globalRegistry = null
Init ==
    LET r == registerDefaults(<<>>, EmptyCache, FirstDefaultOid)
    IN  /\ configs = r.configs
        /\ cache = r.cache
        /\ lastIndex = [o \in CallerOids |-> 0]
        /\ nextOid = FirstDefaultOid + NumDefaults
        /\ last = Call("constructor", Unset, Unset, r.threw, r.logged)
        /\ held = Unset
        /\ snapshot = Unset
        /\ globalRegistry = Unset
        /\ heap = <<>>
        /\ constructed = 0
        /\ callers = [p \in Callers |-> Idle]
        /\ running = Unset
        /\ request = Unset
        /\ logger = Unset

\* registry.register(config)
CallRegister(config) ==
    LET r == register(configs, cache, config)
    IN  /\ IsSet(r.threw) \/ Len(configs) < NumDefaults + MaxCustom
        /\ configs' = r.configs
        /\ cache' = r.cache
        /\ last' = Call("register", Set(config.oid), Unset, r.threw, r.logged)
        /\ held' = IF IsSet(r.threw) THEN held ELSE Stale(held)
        /\ snapshot' = Follow(snapshot, r.configs)
        /\ UNCHANGED <<lastIndex, nextOid>>
        /\ UNCHANGED moduleVars

\* registry.getConfig(model); with keep the caller keeps the returned rule
CallGetConfig(model, keep) ==
    LET g == getConfig(configs, cache, lastIndex, model)
    IN  /\ cache' = g.cache
        /\ lastIndex' = g.lastIndex
        /\ last' = Call("getConfig", Set(model), g.ret, g.threw, <<>>)
        /\ held' = IF keep /\ IsSet(g.ret)
                   THEN Set([model |-> model, rule |-> g.ret[1], fresh |-> TRUE])
                   ELSE held
        /\ UNCHANGED <<configs, nextOid, snapshot>>
        /\ UNCHANGED moduleVars

Accessor(op, g, model) ==
    /\ cache' = g.cache
    /\ lastIndex' = g.lastIndex
    /\ last' = Call(op, Set(model), g.ret, g.threw, <<>>)
    /\ UNCHANGED <<configs, nextOid, held, snapshot>>
    /\ UNCHANGED moduleVars

\* registry.getPersonaRole(model)
CallGetPersonaRole(model) ==
    Accessor("getPersonaRole", getPersonaRole(configs, cache, lastIndex, model), model)

\* registry.getEncoding(model)
CallGetEncoding(model) ==
    Accessor("getEncoding", getEncoding(configs, cache, lastIndex, model), model)

\* registry.supportsToolCalls(model)
CallSupportsToolCalls(model) ==
    Accessor("supportsToolCalls",
             supportsToolCalls(configs, cache, lastIndex, model), model)

\* registry.getFamily(model)
CallGetFamily(model) ==
    Accessor("getFamily", getFamily(configs, cache, lastIndex, model), model)

\* registry.reset(): this.configs becomes a new array
CallReset ==
    LET r == reset(configs, cache, nextOid)
    IN  /\ nextOid < FirstDefaultOid + NumDefaults * (MaxResets + 1)
        /\ configs' = r.configs
        /\ cache' = r.cache
        /\ nextOid' = nextOid + NumDefaults
        /\ last' = Call("reset", Unset, Unset, r.threw, r.logged)
        /\ held' = Stale(held)
        /\ snapshot' = IF IsSet(snapshot)
                       THEN Set([snapshot[1] EXCEPT !.aliased = FALSE])
                       ELSE snapshot
        /\ UNCHANGED lastIndex
        /\ UNCHANGED moduleVars

\* registry.clearCache()
CallClearCache ==
    LET r == clearCache(configs, cache)
    IN  /\ configs' = r.configs
        /\ cache' = r.cache
        /\ last' = Call("clearCache", Unset, Unset, Unset, r.logged)
        /\ snapshot' = Follow(snapshot, r.configs)
        /\ UNCHANGED <<lastIndex, nextOid, held>>
        /\ UNCHANGED moduleVars

\* const configs = registry.getAllConfigs()
CallGetAllConfigs ==
    LET a == getAllConfigs(configs)
    IN  /\ snapshot' = Set([elems |-> a.elems, aliased |-> a.aliased, edits |-> 0])
        /\ last' = Call("getAllConfigs", Unset, Set(a.elems), Unset, <<>>)
        /\ UNCHANGED <<configs, cache, lastIndex, nextOid, held>>
        /\ UNCHANGED moduleVars

Reverse(seq) == [i \in 1..Len(seq) |-> seq[Len(seq) + 1 - i]]

\* the array after one edit by the caller: push(rule), shift(), reverse()
Edited(elems, edit) ==
    CASE edit.kind = "push"    -> Append(elems, edit.rule)
      [] edit.kind = "shift"   -> IF elems = <<>> THEN elems ELSE Tail(elems)
      [] edit.kind = "reverse" -> Reverse(elems)

Edits ==
    {[kind |-> "push", rule |-> CallerRules[i]] : i \in {1, 5}}
    \cup {[kind |-> "shift"], [kind |-> "reverse"]}

\* the caller edits the array it got from getAllConfigs; if that array is
\* this.configs itself, the registry's rule list changes with it
EditSnapshot(edit) ==
    /\ IsSet(snapshot)
    /\ snapshot[1].edits < MaxEdits
    /\ LET e == Edited(snapshot[1].elems, edit)
       IN  /\ snapshot' = Set([snapshot[1] EXCEPT !.elems = e, !.edits = @ + 1])
           /\ configs' = IF snapshot[1].aliased THEN e ELSE configs
    /\ last' = Call("edit", Set(edit.kind), Unset, Unset, <<>>)
    /\ UNCHANGED <<cache, lastIndex, nextOid, held>>
    /\ UNCHANGED moduleVars

Rules == {CallerRules[i] : i \in CallerOids}

\* register, getConfig, reset and clearCache on one registry
Next ==
    \/ \E config \in Rules : CallRegister(config)
    \/ \E model \in ModelIds : CallGetConfig(model, FALSE)
    \/ CallReset
    \/ CallClearCache

Spec == Init /\ [][Next]_vars

\* the same calls made by a caller that may keep a rule getConfig returned,
\* registering the two llama patterns and the rule without a matcher
CallerSideRules == {CallerRules[2], CallerRules[3], CallerRules[5]}

NextCaller ==
    \/ \E config \in CallerSideRules : CallRegister(config)
    \/ \E model \in ModelIds, keep \in BOOLEAN : CallGetConfig(model, keep)
    \/ CallReset
    \/ CallClearCache

SpecCaller == Init /\ [][NextCaller]_vars

\* the derived accessors beside register, getConfig and clearCache
NextAccessors ==
    \/ \E config \in Rules : CallRegister(config)
    \/ \E model \in ModelIds : CallGetConfig(model, FALSE)
    \/ \E model \in ModelIds : CallGetPersonaRole(model)
    \/ \E model \in ModelIds : CallGetEncoding(model)
    \/ \E model \in ModelIds : CallSupportsToolCalls(model)
    \/ \E model \in ModelIds : CallGetFamily(model)
    \/ CallClearCache

SpecAccessors == Init /\ [][NextAccessors]_vars

\* a caller that takes the array of getAllConfigs and edits it
SnapshotRules == {CallerRules[1], CallerRules[2], CallerRules[5]}

NextSnapshot ==
    \/ \E config \in SnapshotRules : CallRegister(config)
    \/ \E model \in ModelIds : CallGetConfig(model, FALSE)
    \/ CallGetAllConfigs
    \/ \E edit \in Edits : EditSnapshot(edit)

SpecSnapshot == Init /\ [][NextSnapshot]_vars

(* Lookups on a registry that holds the five defaults only *)

Prefixes == {<<>>, <<"o">>, <<"O">>, <<"x">>, <<"g", "p", "t", "-", "4">>, <<"G", "P", "T", "-", "4">>, <<"g", "p", "t", "-">>,
             <<"c", "l", "a", "u", "d", "e">>, <<"C", "l", "a", "u", "d", "e">>, <<"g", "e", "m", "i", "n", "i">>, <<"G", "E", "M", "I", "N", "I">>}
Suffixes == {<<>>, <<"1">>, <<"o">>, <<"-", "x">>, <<"3", "x">>}
ProbeIds == {p \o q : p \in Prefixes, q \in Suffixes}

\* a lookup is made while the cache holds fewer than MaxProbes identifiers
MayProbe(model) == model \in DOMAIN cache \/ Cardinality(DOMAIN cache) < MaxProbes

NextDefaults ==
    \/ \E model \in ProbeIds : MayProbe(model) /\ CallGetConfig(model, FALSE)
    \/ \E model \in ProbeIds : MayProbe(model) /\ CallGetFamily(model)
    \/ \E model \in ProbeIds : MayProbe(model) /\ CallGetPersonaRole(model)
    \/ CallClearCache

SpecDefaults == Init /\ [][NextDefaults]_vars

\* the same registry looked up one identifier at a time: the caller clears
\* the cache before it asks for another identifier
NextOrder ==
    \/ \E model \in ProbeIds : DOMAIN cache \subseteq {model} /\ CallGetConfig(model, FALSE)
    \/ \E model \in ProbeIds : DOMAIN cache \subseteq {model} /\ CallGetEncoding(model)
    \/ \E model \in ProbeIds : DOMAIN cache \subseteq {model} /\ CallSupportsToolCalls(model)
    \/ CallClearCache

SpecOrder == Init /\ [][NextOrder]_vars

----------------------------------------------------------------------------
(* The module-level default registry: globalRegistry and the functions that
   reach a registry through getModelRegistry() *)

\* new ModelRegistry(): the defaults, whose literals are oid0 .. oid0 + 4, and
\* an empty cache
newModelRegistry(oid0) ==
    LET r == registerDefaults(<<>>, EmptyCache, oid0)
    IN  [configs |-> r.configs, cache |-> r.cache]

\* getModelRegistry that constructs and installs a registry on every call
getModelRegistryAlwaysNew(g, hp, oid0) ==
    [globalRegistry |-> Set(Len(hp) + 1), heap |-> Append(hp, newModelRegistry(oid0)),
     ret |-> Len(hp) + 1, made |-> 1]

\* getModelRegistry, g being the value its test reads from globalRegistry:
\* if (!globalRegistry) globalRegistry = new ModelRegistry(); return it.
\* A registry is known by its position in the heap.
getModelRegistry(g, hp, oid0) ==
    IF ~IsSet(g)
    THEN [globalRegistry |-> Set(Len(hp) + 1), heap |-> Append(hp, newModelRegistry(oid0)),
          ret |-> Len(hp) + 1, made |-> 1]
    ELSE [globalRegistry |-> g, heap |-> hp, ret |-> g[1], made |-> 0]

\* resetModelRegistry that leaves the reference in place
resetModelRegistryKeep(g) == g

\* resetModelRegistry: globalRegistry = null
resetModelRegistry(g) == Unset

\* what a getModelRegistry() call r leaves in the module state; inst is the
\* registry it returned after the method called on it
Install(r, inst) ==
    /\ Len(r.heap) <= MaxInstances
    /\ globalRegistry' = r.globalRegistry
    /\ heap' = [r.heap EXCEPT ![r.ret] = inst]
    /\ nextOid' = nextOid + NumDefaults * r.made
    /\ constructed' = constructed + r.made

\* getModelRegistry()
CallGetModelRegistry ==
    LET r == getModelRegistry(globalRegistry, heap, nextOid)
    IN  /\ Install(r, r.heap[r.ret])
        /\ last' = Call("getModelRegistry", Unset, Set(r.ret), Unset, <<>>)
        /\ UNCHANGED <<configs, cache, lastIndex, held, snapshot, callers, running, request, logger>>

\* resetModelRegistry(); what the callers received belongs to the past
CallResetModelRegistry ==
    /\ globalRegistry' = resetModelRegistry(globalRegistry)
    /\ constructed' = 0
    /\ callers' = [p \in Callers |->
                     IF callers[p].pc = "returned" THEN Idle ELSE callers[p]]
    /\ last' = Call("resetModelRegistry", Unset, Unset, Unset, <<>>)
    /\ UNCHANGED <<configs, cache, lastIndex, nextOid, held, snapshot, heap, running, request, logger>>

\* a module-level accessor: getModelRegistry() as r, then the method on the
\* registry it returned, with outcome g
ModuleAccessor(op, r, g, model) ==
    /\ Install(r, [configs |-> r.heap[r.ret].configs, cache |-> g.cache])
    /\ lastIndex' = g.lastIndex
    /\ last' = Call(op, Set(model), g.ret, g.threw, <<>>)
    /\ UNCHANGED <<configs, cache, held, snapshot, callers, running, request, logger>>

\* getPersonaRole(model) of the module
ModuleGetPersonaRole(model) ==
    LET r == getModelRegistry(globalRegistry, heap, nextOid)
        inst == r.heap[r.ret]
    IN  ModuleAccessor("module.getPersonaRole", r,
                       getPersonaRole(inst.configs, inst.cache, lastIndex, model), model)

\* getEncoding(model) of the module
ModuleGetEncoding(model) ==
    LET r == getModelRegistry(globalRegistry, heap, nextOid)
        inst == r.heap[r.ret]
    IN  ModuleAccessor("module.getEncoding", r,
                       getEncoding(inst.configs, inst.cache, lastIndex, model), model)

\* supportsToolCalls(model) of the module
ModuleSupportsToolCalls(model) ==
    LET r == getModelRegistry(globalRegistry, heap, nextOid)
        inst == r.heap[r.ret]
    IN  ModuleAccessor("module.supportsToolCalls", r,
                       supportsToolCalls(inst.configs, inst.cache, lastIndex, model), model)

\* getModelFamily(model)
ModuleGetModelFamily(model) ==
    LET r == getModelRegistry(globalRegistry, heap, nextOid)
        inst == r.heap[r.ret]
    IN  ModuleAccessor("module.getModelFamily", r,
                       getFamily(inst.configs, inst.cache, lastIndex, model), model)

\* configureModel(config): getModelRegistry().register(config)
ConfigureModel(config) ==
    LET r == getModelRegistry(globalRegistry, heap, nextOid)
        inst == r.heap[r.ret]
        reg == register(inst.configs, inst.cache, config)
    IN  /\ IsSet(reg.threw) \/ Len(inst.configs) < NumDefaults + MaxConfigured
        /\ Install(r, [configs |-> reg.configs, cache |-> reg.cache])
        /\ last' = Call("configureModel", Set(config.oid), Unset, reg.threw, reg.logged)
        /\ UNCHANGED <<configs, cache, lastIndex, held, snapshot, callers, running, request, logger>>

\* the rule with the g flag and the rule without a matcher, given to the
\* default registry and to a registry of the caller's own
ModuleRules == {CallerRules[3], CallerRules[5]}
ModuleIds == {Id_llama3, Id_gpt4o}

NextModule ==
    \/ CallGetModelRegistry
    \/ CallResetModelRegistry
    \/ \E model \in ModuleIds : ModuleGetPersonaRole(model)
    \/ \E model \in ModuleIds : ModuleGetEncoding(model)
    \/ \E model \in ModuleIds : ModuleSupportsToolCalls(model)
    \/ \E model \in ModuleIds : ModuleGetModelFamily(model)
    \/ \E config \in ModuleRules : ConfigureModel(config)

SpecModule == Init /\ [][NextModule]_vars

\* the module-level functions beside the methods of a registry made with
\* new ModelRegistry()
NextIsolation ==
    \/ NextModule
    \/ \E config \in ModuleRules :
           /\ IsSet(register(configs, cache, config).threw)
              \/ Len(configs) < NumDefaults + MaxConfigured
           /\ CallRegister(config)
    \/ \E model \in ModuleIds : CallGetConfig(model, FALSE)
    \/ CallReset
    \/ CallClearCache

SpecIsolation == Init /\ [][NextIsolation]_vars

(* Callers that reach getModelRegistry() concurrently *)

\* the value of globalRegistry the test of getModelRegistry reads when the
\* call of caller p was issued
GlobalAtInvoke(p) == callers[p].seen

\* the value of globalRegistry the test of getModelRegistry reads: the one at
\* the time the body runs
GlobalAtCheck(p) == globalRegistry

\* caller p issues getModelRegistry(); the call has not run yet
Invoke(p) ==
    /\ callers[p].pc = "idle"
    /\ callers' = [callers EXCEPT ![p] =
                     [pc |-> "pending", seen |-> globalRegistry, received |-> Unset]]
    /\ UNCHANGED <<configs, cache, lastIndex, nextOid, last, held, snapshot,
                   globalRegistry, heap, constructed, running, request, logger>>

\* the body of getModelRegistry runs for caller p, from its test to its return
Run(p) ==
    LET r == getModelRegistry(GlobalAtCheck(p), heap, nextOid)
    IN  /\ callers[p].pc = "pending"
        /\ Install(r, r.heap[r.ret])
        /\ callers' = [callers EXCEPT ![p] =
                         [pc |-> "returned", seen |-> callers[p].seen,
                          received |-> Set(r.ret)]]
        /\ last' = Call("getModelRegistry", Set(p), Set(r.ret), Unset, <<>>)
        /\ UNCHANGED <<configs, cache, lastIndex, held, snapshot, running, request, logger>>

NextConcurrent ==
    \/ \E p \in Callers : Invoke(p)
    \/ \E p \in Callers : Run(p)
    \/ CallResetModelRegistry

SpecConcurrent == Init /\ [][NextConcurrent]_vars

----------------------------------------------------------------------------
(* The methods statement by statement.  A method is synchronous: once entered
   it runs to its return, and a call of another caller starts only then. *)

\* one statement of a method; call tells the invocation it belongs to: 0 the
\* method the caller called, 1..5 the register calls of registerDefaults, 6
\* registerDefaults itself
Stmt(kind, call, rule, message) ==
    [kind |-> kind, call |-> call, rule |-> rule, message |-> message]

\* register with its debug call moved in front of unshift and cache.clear
registerStmtsLogFirst(config, call) ==
    << Stmt("check", call, Set(config), ""),
       Stmt("debug", call, Unset, "Registered model config"),
       Stmt("unshift", call, Set(config), ""),
       Stmt("clear", call, Unset, "") >>

\* the statements of register(config)
registerStmts(config, call) ==
    << Stmt("check", call, Set(config), ""),
       Stmt("unshift", call, Set(config), ""),
       Stmt("clear", call, Unset, ""),
       Stmt("debug", call, Unset, "Registered model config") >>

\* the statements of registerDefaults()
registerDefaultsStmts(oid0) ==
    LET d == DefaultLiterals(oid0)
    IN  registerStmts(d[1], 1) \o registerStmts(d[2], 2) \o registerStmts(d[3], 3)
        \o registerStmts(d[4], 4) \o registerStmts(d[5], 5)
        \o << Stmt("debug", 6, Unset, "Registered default model configurations") >>

\* the statements of reset()
resetStmts(oid0) ==
    << Stmt("assign", 0, Unset, ""), Stmt("clear", 0, Unset, "") >>
    \o registerDefaultsStmts(oid0)
    \o << Stmt("debug", 0, Unset, "Reset model configurations to defaults") >>

\* the statements of clearCache()
clearCacheStmts ==
    << Stmt("clear", 0, Unset, ""),
       Stmt("debug", 0, Unset, "Cleared model configuration cache") >>

\* the effect of one statement on this.configs and this.cache
Exec(stmt, cfgs, cch) ==
    CASE stmt.kind = "check" ->
             [configs |-> cfgs, cache |-> cch, logged |-> <<>>,
              threw |-> IF ~TruthyObject(stmt.rule[1].pattern)
                           /\ ~TruthyString(stmt.rule[1].exactMatch)
                        THEN Set(MalformedRule) ELSE Unset]
      [] stmt.kind = "unshift" ->
             [configs |-> <<stmt.rule[1]>> \o cfgs, cache |-> cch,
              logged |-> <<>>, threw |-> Unset]
      [] stmt.kind = "clear" ->
             [configs |-> cfgs, cache |-> EmptyCache, logged |-> <<>>, threw |-> Unset]
      [] stmt.kind = "assign" ->
             [configs |-> <<>>, cache |-> cch, logged |-> <<>>, threw |-> Unset]
      [] stmt.kind = "debug" ->
             [configs |-> cfgs, cache |-> cch, logged |-> <<Debug(stmt.message)>>,
              threw |-> Unset]

\* a call of another caller may start at any time
CanEnterAnyTime == TRUE

\* a call of another caller starts when no method is in progress
CanEnter == ~IsSet(running)

\* a method is entered: its statements are still to run
Enter(op, arg, stmts) ==
    /\ ~IsSet(running)
    /\ running' = Set([op |-> op, arg |-> arg, todo |-> stmts, logged |-> <<>>,
                       from |-> [configs |-> configs, cache |-> cache,
                                 oid0 |-> nextOid]])
    /\ UNCHANGED <<configs, cache, lastIndex, last, held, snapshot,
                   globalRegistry, heap, constructed, callers, request, logger>>

\* registry.register(config) is entered
EnterRegister(config) ==
    /\ IsSet(register(configs, cache, config).threw)
       \/ Len(configs) < NumDefaults + MaxConfigured
    /\ Enter("register", Set(config.oid), registerStmts(config, 0))
    /\ UNCHANGED nextOid

\* registry.reset() is entered
EnterReset ==
    /\ nextOid < FirstDefaultOid + NumDefaults * (MaxResets + 1)
    /\ Enter("reset", Unset, resetStmts(nextOid))
    /\ nextOid' = nextOid + NumDefaults

\* registry.clearCache() is entered
EnterClearCache ==
    /\ Enter("clearCache", Unset, clearCacheStmts)
    /\ UNCHANGED nextOid

\* the method in progress runs its next statement; a throw and the last
\* statement end it
Step ==
    /\ IsSet(running)
    /\ LET m == running[1]
           e == Exec(Head(m.todo), configs, cache)
           rest == IF IsSet(e.threw) THEN <<>> ELSE Tail(m.todo)
           logged == m.logged \o e.logged
       IN  /\ configs' = e.configs
           /\ cache' = e.cache
           /\ IF rest = <<>>
              THEN /\ running' = Unset
                   /\ last' = Call(m.op, m.arg, Unset, e.threw, logged)
              ELSE /\ running' = Set([m EXCEPT !.todo = rest, !.logged = logged])
                   /\ last' = last
    /\ UNCHANGED <<lastIndex, nextOid, held, snapshot,
                   globalRegistry, heap, constructed, callers, request, logger>>

\* the rules registered where methods run statement by statement
StepRules == {CallerRules[1], CallerRules[2], CallerRules[5]}

NextSteps ==
    \/ \E config \in StepRules : EnterRegister(config)
    \/ EnterReset
    \/ EnterClearCache
    \/ Step
    \/ \E model \in ModelIds : CanEnter /\ CallGetConfig(model, FALSE)
    \/ \E model \in ModelIds : CanEnter /\ CallGetFamily(model)

SpecSteps == Init /\ [][NextSteps]_vars

(* getConfig iteration by iteration *)

\* the loop of getConfig staying at the same rule
SameIndex(i) == i

\* for (const config of this.configs): the rule examined next
NextIndex(i) == i + 1

\* one iteration of the loop of getConfig on rule config: whether the rule is
\* returned, and the lastIndex values it leaves
examine(config, li, model) ==
    IF TruthyString(config.exactMatch) /\ config.exactMatch[1] = model
    THEN [hit |-> TRUE, lastIndex |-> li]
    ELSE IF TruthyObject(config.pattern)
         THEN LET t == RegExpTest(config.pattern[1], LastIndexOf(li, config), model)
              IN  [hit |-> t.ok, lastIndex |-> WithLastIndex(li, config, t.lastIndex)]
         ELSE [hit |-> FALSE, lastIndex |-> li]

\* registry.getConfig(model) is entered; i = 0 stands before the cache test
EnterGetConfig(model) ==
    /\ ~IsSet(running)
    /\ running' = Set([op |-> "getConfig", arg |-> Set(model), i |-> 0,
                       from |-> [configs |-> configs, cache |-> cache,
                                 lastIndex |-> lastIndex]])
    /\ UNCHANGED <<configs, cache, lastIndex, nextOid, last, held, snapshot,
                   globalRegistry, heap, constructed, callers, request, logger>>

\* getConfig returns or throws
Leave(model, ret, threw) ==
    /\ running' = Unset
    /\ last' = Call("getConfig", Set(model), ret, threw, <<>>)

\* the getConfig in progress runs its cache test, one iteration of its loop,
\* or the throw after the loop
ScanStep ==
    /\ IsSet(running)
    /\ running[1].op = "getConfig"
    /\ LET m == running[1]
           model == m.arg[1]
       IN  IF m.i = 0
           THEN /\ IF model \in DOMAIN cache
                   THEN Leave(model, Set(cache[model]), Unset)
                   ELSE /\ running' = Set([m EXCEPT !.i = NextIndex(m.i)])
                        /\ last' = last
                /\ UNCHANGED <<cache, lastIndex>>
           ELSE IF m.i > Len(configs)
           THEN /\ Leave(model, Unset, Set(NoConfiguration(model)))
                /\ UNCHANGED <<cache, lastIndex>>
           ELSE LET x == examine(configs[m.i], lastIndex, model)
                IN  /\ lastIndex' = x.lastIndex
                    /\ IF x.hit
                       THEN /\ cache' = CacheSet(cache, model, configs[m.i])
                            /\ Leave(model, Set(configs[m.i]), Unset)
                       ELSE /\ cache' = cache
                            /\ running' = Set([m EXCEPT !.i = NextIndex(m.i)])
                            /\ last' = last
    /\ UNCHANGED <<configs, nextOid, held, snapshot,
                   globalRegistry, heap, constructed, callers, request, logger>>

\* the rules registered where getConfig runs iteration by iteration
ScanRules == {CallerRules[1], CallerRules[3], CallerRules[5]}

NextScan ==
    \/ \E config \in ScanRules : EnterRegister(config)
    \/ EnterReset
    \/ EnterClearCache
    \/ \E model \in ModelIds : EnterGetConfig(model)
    \/ IsSet(running) /\ running[1].op # "getConfig" /\ Step
    \/ ScanStep

\* a method that was entered keeps running: nothing in it waits
SpecScan ==
    /\ Init
    /\ [][NextScan]_vars
    /\ WF_vars(IsSet(running) /\ running[1].op # "getConfig" /\ Step)
    /\ WF_vars(ScanStep)

----------------------------------------------------------------------------
(* createRequest (types.ts) *)

\* the registries, which createRequest and wrapLogger do not touch
registryVars == <<configs, cache, lastIndex, nextOid, held, snapshot,
                  globalRegistry, heap, constructed, callers, running>>

\* the messages and models of the createRequest tests
Messages == {[role |-> "system", content |-> "You are helpful"],
             [role |-> "user", content |-> "Hi"],
             [role |-> "assistant", content |-> "Hello!"]}
RequestModels == {"gpt-4o", "claude-3-opus"}

\* createRequest(model): array is the const messages of the closure; own is
\* unset while the messages property is that same array; added lists the
\* arguments of the addMessage calls made so far
createRequest(model) ==
    [model |-> model, array |-> <<>>, own |-> Unset,
     responseFormat |-> Unset, validator |-> Unset, added |-> <<>>]

\* request.messages as the caller reads it
MessagesOf(req) == IF IsSet(req.own) THEN req.own[1] ELSE req.array

\* addMessage that puts the message in front
addMessageUnshift(req, message) ==
    [req EXCEPT !.array = <<message>> \o @, !.added = Append(@, message)]

\* request.addMessage(message): messages.push(message) on the closure's array
addMessage(req, message) ==
    [req EXCEPT !.array = Append(@, message), !.added = Append(@, message)]

\* const request = createRequest(model)
CallCreateRequest(model) ==
    /\ request' = Set(createRequest(model))
    /\ last' = Call("createRequest", Set(model), Unset, Unset, <<>>)
    /\ UNCHANGED <<registryVars, logger>>

\* request.addMessage(message)
CallAddMessage(message) ==
    /\ IsSet(request)
    /\ Len(request[1].added) < MaxMessages
    /\ request' = Set(addMessage(request[1], message))
    /\ last' = Call("addMessage", Set(message), Unset, Unset, <<>>)
    /\ UNCHANGED <<registryVars, logger>>

\* request.messages = []: the caller gives the property an array of its own
AssignMessages ==
    /\ IsSet(request)
    /\ request' = Set([request[1] EXCEPT !.own = Set(<<>>)])
    /\ last' = Call("request.messages =", Unset, Unset, Unset, <<>>)
    /\ UNCHANGED <<registryVars, logger>>

NextRequest ==
    \/ \E model \in RequestModels : CallCreateRequest(model)
    \/ \E message \in Messages : CallAddMessage(message)
    \/ AssignMessages

SpecRequest == Init /\ [][NextRequest]_vars

----------------------------------------------------------------------------
(* wrapLogger (logger.ts), as the specification and logger.test.ts describe
   it, and the constructor's use of it *)

\* the six operations a logger must have
LogLevels == {"debug", "info", "warn", "error", "verbose", "silly"}
LIBRARY_NAME == "execution"

\* the objects handed to wrapLogger: a name and all six operations, all but
\* one of them, debug alone, or none
Loggers ==
    {[name |-> "mock", methods |-> ms] :
         ms \in {m \in SUBSET LogLevels : Cardinality(m) >= 5 \/ m \subseteq {"debug"}}}
DEFAULT_LOGGER == [name |-> "default", methods |-> LogLevels]

IncompleteLogger == [name |-> "Error", message |-> "Logger is missing required methods"]

\* wrapLogger without the test for the six operations
wrapLoggerUnchecked(toWrap, tag) ==
    [ret |-> Set([name |-> "wrapped", target |-> toWrap, tag |-> tag]),
     threw |-> Unset]

\* wrapLogger(toWrap, name?): the wrapper, or the error for a logger that
\* lacks one of the six operations
wrapLogger(toWrap, tag) ==
    IF LogLevels \subseteq toWrap.methods
    THEN [ret |-> Set([name |-> "wrapped", target |-> toWrap, tag |-> tag]),
          threw |-> Unset]
    ELSE [ret |-> Unset, threw |-> Set(IncompleteLogger)]

\* the line the target receives: [execution][tag] message, the tag segment
\* left out when no tag was given
Line(wrapper, level, message) ==
    [level |-> level,
     text |-> <<LIBRARY_NAME>> \o wrapper.tag \o <<message>>]

\* wrapped.<level>(message): the target's operation of that level is called;
\* calling an operation the target lacks is a TypeError
log(wrapper, level, message) ==
    IF level \in wrapper.target.methods
    THEN [line |-> Set(Line(wrapper, level, message)), threw |-> Unset]
    ELSE [line |-> Unset,
          threw |-> Set([name |-> "TypeError", message |-> "not a function"])]

\* const wrapped = wrapLogger(toWrap, tag); a throw leaves the caller with
\* the wrapper it had
CallWrapLogger(toWrap, tag) ==
    LET w == wrapLogger(toWrap, tag)
    IN  /\ logger' = IF IsSet(w.threw) THEN logger
                     ELSE Set([wrapper |-> w.ret[1], lines |-> <<>>])
        /\ last' = Call("wrapLogger", Set(toWrap), Unset, w.threw, <<>>)
        /\ UNCHANGED <<registryVars, request>>

\* wrapped.<level>("Test message")
CallLog(level) ==
    /\ IsSet(logger)
    /\ Len(logger[1].lines) < MaxLines
    /\ LET l == log(logger[1].wrapper, level, "Test message")
       IN  /\ logger' = Set([logger[1] EXCEPT !.lines = @ \o l.line])
           /\ last' = Call("log", Set(level), Unset, l.threw, <<>>)
    /\ UNCHANGED <<registryVars, request>>

\* new ModelRegistry(toWrap): wrapLogger(logger || DEFAULT_LOGGER,
\* 'ModelRegistry') runs before registerDefaults; when it throws no registry
\* is made, otherwise the debug events of registerDefaults go through the
\* wrapper
CallConstructor(toWrap) ==
    LET w == wrapLogger(IF IsSet(toWrap) THEN toWrap[1] ELSE DEFAULT_LOGGER,
                        Set("ModelRegistry"))
        r == registerDefaults(<<>>, EmptyCache, nextOid)
    IN  /\ nextOid < FirstDefaultOid + NumDefaults * (MaxResets + 1)
        /\ IF IsSet(w.threw)
           THEN /\ last' = Call("constructor", toWrap, Unset, w.threw, <<>>)
                /\ UNCHANGED <<configs, cache, nextOid, logger>>
           ELSE /\ configs' = r.configs
                /\ cache' = r.cache
                /\ nextOid' = nextOid + NumDefaults
                /\ logger' = Set([wrapper |-> w.ret[1],
                                  lines |-> [k \in 1..Len(r.logged) |->
                                               log(w.ret[1], r.logged[k].level,
                                                   r.logged[k].message).line[1]]])
                /\ last' = Call("constructor", toWrap, Unset, r.threw, r.logged)
        /\ UNCHANGED <<lastIndex, held, snapshot, globalRegistry, heap,
                       constructed, callers, running, request>>

NextLogger ==
    \/ \E toWrap \in Loggers, tag \in {Unset, Set("TestModule")} :
           CallWrapLogger(toWrap, tag)
    \/ \E level \in LogLevels : CallLog(level)
    \/ \E toWrap \in {Unset} \cup {Set(l) : l \in Loggers} : CallConstructor(toWrap)

SpecLogger == Init /\ [][NextLogger]_vars

----------------------------------------------------------------------------
(* Lookups of identifiers that differ in letter case only *)

Id_LLAMA3  == <<"L", "L", "A", "M", "A", "-", "3">>
Id_MYMODEL == <<"M", "Y", "-", "M", "O", "D", "E", "L">>
CaseIds == {Id_llama3, Id_LLAMA3, Id_mymodel, Id_MYMODEL}

\* /^llama/ : a caller's pattern without flags
CaseSensitiveRule ==
    ModelConfig(0, Set(RegExp(TRUE, <<"l", "l", "a", "m", "a">>, "none", FALSE, FALSE)), Unset,
                "system", "cl100k_base", Unset, Set("llama-cs"), Unset)

CaseRules == {CallerRules[1], CallerRules[2], CallerRules[3], CaseSensitiveRule}

NextCase ==
    \/ \E config \in CaseRules : CallRegister(config)
    \/ \E model \in CaseIds : CallGetConfig(model, FALSE)
    \/ CallClearCache

SpecCase == Init /\ [][NextCase]_vars

----------------------------------------------------------------------------
(* An exactMatch rule and pattern rules for the same identifier *)

\* a caller's rule with exactMatch "llama-3"
ExactLlamaRule ==
    ModelConfig(0 - 1, Unset, Set(Id_llama3), "developer", "cl100k_base",
                Unset, Set("llama-exact"), Unset)

PrecedenceRules == {ExactLlamaRule, CallerRules[2], CallerRules[3], CallerRules[7]}
PrecedenceIds == {Id_llama3, Id_gpt4o}

NextPrecedence ==
    \/ \E config \in PrecedenceRules : CallRegister(config)
    \/ \E model \in PrecedenceIds : CallGetConfig(model, FALSE)
    \/ CallReset
    \/ CallClearCache

SpecPrecedence == Init /\ [][NextPrecedence]_vars

----------------------------------------------------------------------------
(* Properties *)

\* a rule describes model: its exactMatch is that string, or its pattern,
\* tried from the start of the string, matches it
Matches(rule, model) ==
    \/ TruthyString(rule.exactMatch) /\ rule.exactMatch[1] = model
    \/ TruthyObject(rule.pattern) /\ PatternMatches(rule.pattern[1], model)

\* the rule getConfig(model) would return in the current state
Resolved(cfgs, cch, li, model) == getConfig(cfgs, cch, li, model).ret

\* C1: on a cache miss getConfig(id) returns the rule of lowest index among
\* the rules that match id; no matching rule earlier in the list is skipped.
C1_FirstMatchingRule ==
    [][(last'.op = "getConfig" /\ last'.arg[1] \notin DOMAIN cache) =>
         LET hits == {i \in 1..Len(configs) : Matches(configs[i], last'.arg[1])}
         IN  hits # {} => last'.ret = Set(configs[Min(hits)])]_vars

\* C2: when getConfig(id) was called before a successful register(r) and r
\* matches id, the getConfig(id) that follows the register returns r.
C2_NewRuleAfterRegister ==
    [][(/\ last.op = "register" /\ ~IsSet(last.threw)
        /\ last'.op = "getConfig"
        /\ IsSet(held) /\ held[1].model = last'.arg[1]
        /\ Matches(CallerRules[last.arg[1]], last'.arg[1]))
       => last'.ret = Set(CallerRules[last.arg[1]])]_vars

\* C3: two getConfig(id) calls with no register or reset between them
\* (clearCache and other lookups may lie between) return the same object.
C3_CacheIdentity ==
    [][(/\ last'.op = "getConfig"
        /\ IsSet(held) /\ held[1].fresh /\ held[1].model = last'.arg[1])
       => last'.ret = Set(held[1].rule)]_vars

\* C7: clearCache() empties the cache, leaves the rule list untouched, and
\* getConfig(id) returns after it the rule it would have returned before it.
C7_ClearCacheKeepsResolution ==
    [][last'.op = "clearCache" =>
         /\ cache' = EmptyCache
         /\ configs' = configs
         /\ \A id \in ModelIds :
              Resolved(configs', cache', lastIndex', id)
                = Resolved(configs, cache, lastIndex, id)]_vars

\* the rule object has no matcher field at all
Neither(rule) == ~IsSet(rule.pattern) /\ ~IsSet(rule.exactMatch)
Both(rule) == IsSet(rule.pattern) /\ IsSet(rule.exactMatch)

\* C4: register(rule) with neither pattern nor exactMatch raises the
\* malformed-rule error and leaves the rule list and the cache as they were.
C4_MalformedRegisterNoEffect ==
    [][(last'.op = "register" /\ Neither(CallerRules[last'.arg[1]])) =>
         /\ last'.threw = Set(MalformedRule)
         /\ configs' = configs
         /\ cache' = cache]_vars

\* C4 witness: the error was raised on a registry that holds a custom rule
\* and a cached lookup
C4_Witness ==
    /\ last.op = "register" /\ Neither(CallerRules[last.arg[1]])
    /\ last.threw = Set(MalformedRule)
    /\ Len(configs) > NumDefaults
    /\ DOMAIN cache # {}

\* C5 as stated: every installed rule has exactly one of pattern and
\* exactMatch, and register fails when neither or both are set.
C5_ExactlyOneMatcher ==
    /\ \A i \in 1..Len(configs) :
         IsSet(configs[i].pattern) # IsSet(configs[i].exactMatch)
    /\ (last.op = "register"
        /\ (Neither(CallerRules[last.arg[1]]) \/ Both(CallerRules[last.arg[1]])))
       => IsSet(last.threw)

\* C5 amended: every installed rule has at least one usable matcher (a
\* pattern, or a non-empty exactMatch); register fails exactly when the rule
\* has none, so a rule carrying both matchers is accepted.
C5_AtLeastOneMatcher ==
    /\ \A i \in 1..Len(configs) :
         TruthyObject(configs[i].pattern) \/ TruthyString(configs[i].exactMatch)
    /\ last.op = "register" =>
         LET rule == CallerRules[last.arg[1]]
         IN  IsSet(last.threw) <=>
               (~TruthyObject(rule.pattern) /\ ~TruthyString(rule.exactMatch))

\* C5 witness: a rule with both matchers has just been installed
C5_Witness ==
    /\ last.op = "register" /\ ~IsSet(last.threw)
    /\ Both(CallerRules[last.arg[1]])
    /\ Both(configs[1])

\* a registry as the constructor leaves it
FreshConfigs == registerDefaults(<<>>, EmptyCache, FirstDefaultOid).configs
FreshLastIndex == [o \in CallerOids |-> 0]
Contents(cfgs) == [i \in 1..Len(cfgs) |-> Content(cfgs[i])]
Families(cfgs) == [i \in 1..Len(cfgs) |-> cfgs[i].family]

\* C6: after reset() the rule list is the five defaults in the order gemini,
\* gpt-4, o-series, claude, fallback, the cache is empty, and every
\* identifier resolves as on a newly constructed registry (a custom
\* exact-match identifier to family unknown).
C6_ResetIsFresh ==
    last.op = "reset" =>
      /\ Contents(configs) = Contents(FreshConfigs)
      /\ Families(configs) = <<Set("gemini"), Set("gpt-4"), Set("o-series"),
                               Set("claude"), Set("unknown")>>
      /\ cache = EmptyCache
      /\ \A id \in ModelIds :
           LET now   == getConfig(configs, cache, lastIndex, id)
               fresh == getConfig(FreshConfigs, EmptyCache, FreshLastIndex, id)
           IN  /\ now.threw = fresh.threw
               /\ Contents(now.ret) = Contents(fresh.ret)
      /\ getFamily(configs, cache, lastIndex, Id_mymodel).ret = Set(Set("unknown"))

\* C6 witness: reset() was called after a custom pattern rule had been
\* registered and used for a lookup
C6_Witness ==
    /\ last.op = "reset"
    /\ \E o \in CallerOids : lastIndex[o] > 0

\* C8: getAllConfigs() returns the rule list in priority order and changes
\* neither rules nor cache; pushing to, shifting or reversing the returned
\* array changes neither the registry's rule list nor any later lookup.
C8_GetAllConfigsIsCopy ==
    [][/\ last'.op = "getAllConfigs" =>
            /\ last'.ret = Set(configs)
            /\ configs' = configs
            /\ cache' = cache
       /\ last'.op = "edit" =>
            /\ configs' = configs
            /\ cache' = cache
            /\ getAllConfigs(configs').elems = getAllConfigs(configs).elems
            /\ \A id \in ModelIds :
                 Resolved(configs', cache', lastIndex', id)
                   = Resolved(configs, cache, lastIndex, id)]_vars

\* C8 witness: the caller has edited the array it was given, which now
\* differs from the registry's rule list
C8_Witness ==
    /\ last.op = "edit"
    /\ IsSet(snapshot) /\ snapshot[1].edits > 0
    /\ snapshot[1].elems # configs
    /\ Len(configs) > NumDefaults

(* The families as the specification words them, computed without RegExp *)

ToLower(ch) ==
    IF \E i \in 1..26 : UpperLetters[i] = ch
    THEN LowerLetters[CHOOSE i \in 1..26 : UpperLetters[i] = ch]
    ELSE ch

StartsWithIgnoringCase(str, prefix) ==
    /\ Len(str) >= Len(prefix)
    /\ [i \in 1..Len(prefix) |-> ToLower(str[i])] = prefix

ExpectedFamily(id) ==
    CASE StartsWithIgnoringCase(id, <<"g", "e", "m", "i", "n", "i">>) -> "gemini"
      [] StartsWithIgnoringCase(id, <<"g", "p", "t", "-", "4">>) -> "gpt-4"
      [] StartsWithIgnoringCase(id, <<"o">>) /\ Len(id) >= 2 /\ id[2] \in Digits
           -> "o-series"
      [] StartsWithIgnoringCase(id, <<"c", "l", "a", "u", "d", "e">>) -> "claude"
      [] OTHER -> "unknown"

ExpectedPersonaRole(id) ==
    IF ExpectedFamily(id) = "o-series" THEN "developer" ELSE "system"

AccessorOps == {"getPersonaRole", "getEncoding", "supportsToolCalls", "getFamily"}

\* C10: each derived accessor returns the personaRole, encoding, family
\* (absent when unset) or supportsToolCalls (true when unset) of the rule
\* getConfig(id) returns, and changes the cache and fails as getConfig does.
C10_AccessorsProjectGetConfig ==
    [][last'.op \in AccessorOps =>
         LET g == getConfig(configs, cache, lastIndex, last'.arg[1])
         IN  /\ configs' = configs
             /\ cache' = g.cache
             /\ lastIndex' = g.lastIndex
             /\ last'.threw = g.threw
             /\ IsSet(g.ret) =>
                  /\ last'.op = "getPersonaRole" =>
                       last'.ret = Set(g.ret[1].personaRole)
                  /\ last'.op = "getEncoding" =>
                       last'.ret = Set(g.ret[1].encoding)
                  /\ last'.op = "getFamily" =>
                       last'.ret = Set(g.ret[1].family)
                  /\ last'.op = "supportsToolCalls" =>
                       last'.ret = IF IsSet(g.ret[1].supportsToolCalls)
                                   THEN g.ret[1].supportsToolCalls
                                   ELSE Set(TRUE)
             /\ ~IsSet(g.ret) => last'.ret = Unset]_vars

\* C10 witness: supportsToolCalls answered true for a rule that leaves it unset
C10_Witness ==
    /\ last.op = "supportsToolCalls"
    /\ last.arg = Set(Id_mymodel)
    /\ Id_mymodel \in DOMAIN cache
    /\ cache[Id_mymodel].supportsToolCalls = Unset
    /\ last.ret = Set(TRUE)

\* C11: a successful register(r) leaves every identifier that r does not
\* match resolving to the rule it resolved to before the call, although the
\* cache entry of that identifier is discarded.
C11_RegisterFrame ==
    [][(last'.op = "register" /\ ~IsSet(last'.threw)) =>
         \A model \in ModelIds :
             ~Matches(CallerRules[last'.arg[1]], model) =>
                 Resolved(configs', cache', lastIndex', model)
                     = Resolved(configs, cache, lastIndex, model)]_vars

\* C12: a getModelRegistry() call returns the registry every call since the
\* last resetModelRegistry() returned, constructs nothing when a registry is
\* installed, and at most one registry is constructed between two
\* resetModelRegistry() calls, none while globalRegistry is null.
C12_SingletonIdentity ==
    [][/\ \A p \in Callers :
              (callers[p].pc = "pending" /\ callers'[p].pc = "returned") =>
                  /\ \A q \in Callers :
                         callers[q].pc = "returned" =>
                             callers'[p].received = callers[q].received
                  /\ IsSet(globalRegistry) =>
                         heap' = heap /\ callers'[p].received = globalRegistry
       /\ constructed' <= 1
       /\ ~IsSet(globalRegistry') => constructed' = 0]_vars

\* two callers hold the registry constructed after a resetModelRegistry()
C12_Witness ==
    /\ Len(heap) = 2
    /\ constructed = 1
    /\ \E p, q \in Callers :
           /\ p # q
           /\ callers[p].pc = "returned" /\ callers[q].pc = "returned"
           /\ callers[p].received = Set(2) /\ callers[q].received = Set(2)

ModuleAccessorOps == {"module.getPersonaRole", "module.getEncoding",
                      "module.supportsToolCalls", "module.getModelFamily"}
ModuleOps == ModuleAccessorOps \cup {"configureModel"}
PrivateOps == {"register", "getConfig", "reset", "clearCache"}

\* what the module-level accessor op answers for model on a registry
ModuleAnswer(op, cfgs, cch, li, model) ==
    CASE op = "module.getPersonaRole"    -> getPersonaRole(cfgs, cch, li, model).ret
      [] op = "module.getEncoding"       -> getEncoding(cfgs, cch, li, model).ret
      [] op = "module.supportsToolCalls" -> supportsToolCalls(cfgs, cch, li, model).ret
      [] op = "module.getModelFamily"    -> getFamily(cfgs, cch, li, model).ret

\* C13: resetModelRegistry() leaves no registry installed; the next
\* getModelRegistry() returns a registry that is none of the earlier ones and
\* holds five new default rules and an empty cache, and a module-level
\* function called next answers as a newly constructed registry does.
C13_FreshAfterResetModelRegistry ==
    [][/\ last'.op = "resetModelRegistry" => ~IsSet(globalRegistry')
       /\ (last'.op = "getModelRegistry" /\ ~IsSet(globalRegistry)) =>
            LET i == last'.ret[1]
            IN  /\ i \notin DOMAIN heap
                /\ globalRegistry' = Set(i)
                /\ Contents(heap'[i].configs) = Contents(FreshConfigs)
                /\ heap'[i].cache = EmptyCache
                /\ \A j \in DOMAIN heap :
                       \A k \in 1..Len(heap[j].configs), n \in 1..Len(heap'[i].configs) :
                           heap'[i].configs[n].oid # heap[j].configs[k].oid
                /\ \A model \in ModelIds :
                       Resolved(heap'[i].configs, heap'[i].cache, lastIndex', model)
                           = Set(heap'[i].configs[
                                 CHOOSE n \in 1..NumDefaults :
                                     Resolved(FreshConfigs, EmptyCache, FreshLastIndex, model)
                                         = Set(FreshConfigs[n])])
       /\ (last'.op \in ModuleAccessorOps /\ ~IsSet(globalRegistry)) =>
            /\ globalRegistry'[1] \notin DOMAIN heap
            /\ last'.ret = ModuleAnswer(last'.op, FreshConfigs, EmptyCache,
                                        FreshLastIndex, last'.arg[1])
       /\ (last'.op = "configureModel" /\ ~IsSet(globalRegistry)) =>
            LET i == globalRegistry'[1]
                c == heap'[i].configs
            IN  /\ i \notin DOMAIN heap
                /\ Contents(SubSeq(c, Len(c) - NumDefaults + 1, Len(c)))
                       = Contents(FreshConfigs)
                /\ IsSet(last'.threw) => Len(c) = NumDefaults
                /\ ~IsSet(last'.threw) =>
                       /\ Len(c) = NumDefaults + 1
                       /\ c[1] = CallerRules[last'.arg[1]]]_vars

\* C13 witness: the first default registry holds a configured rule and a cache
\* entry; after resetModelRegistry() getModelRegistry() returned a second one
C13_Witness ==
    /\ last.op = "getModelRegistry"
    /\ last.ret = Set(2)
    /\ globalRegistry = Set(2)
    /\ Len(heap) = 2
    /\ Len(heap[1].configs) = NumDefaults + 1
    /\ heap[1].cache # EmptyCache
    /\ Len(heap[2].configs) = NumDefaults
    /\ heap[2].cache = EmptyCache

\* C14: a module-level function acts on the default registry, which exists
\* afterwards, and on no other registry; register, getConfig, reset and
\* clearCache on a registry of the caller's own leave globalRegistry, the
\* rules, the cache and the resolution of every default registry as they
\* were; configureModel leaves the caller's own registry as it was.
C14_InstancesIsolated ==
    [][/\ last'.op \in ModuleOps =>
            /\ configs' = configs
            /\ cache' = cache
            /\ IsSet(globalRegistry')
            /\ IsSet(globalRegistry) => globalRegistry' = globalRegistry
            /\ \A j \in DOMAIN heap : j # globalRegistry'[1] => heap'[j] = heap[j]
       /\ last'.op = "configureModel" =>
            \A model \in ModuleIds :
                Resolved(configs', cache', lastIndex', model)
                    = Resolved(configs, cache, lastIndex, model)
       /\ last'.op \in PrivateOps =>
            /\ globalRegistry' = globalRegistry
            /\ heap' = heap
            /\ \A j \in DOMAIN heap, model \in ModuleIds :
                   Resolved(heap'[j].configs, heap'[j].cache, lastIndex', model)
                       = Resolved(heap[j].configs, heap[j].cache, lastIndex, model)]_vars

\* the callers whose getModelRegistry() call was issued while globalRegistry
\* was null and has returned since the last resetModelRegistry()
FirstAccessors ==
    {p \in Callers : callers[p].pc = "returned" /\ ~IsSet(callers[p].seen)}

\* C15: when callers issue getModelRegistry() while no registry is installed,
\* exactly one registry is constructed and installed, and each of them
\* receives that registry.
C15_AtomicFirstAccess ==
    FirstAccessors # {} =>
        /\ constructed = 1
        /\ IsSet(globalRegistry)
        /\ \A p \in FirstAccessors : callers[p].received = globalRegistry

\* C15 witness: every caller issued its call before any of them ran, and all
\* have returned
C15_Witness ==
    /\ FirstAccessors = Callers
    /\ Len(heap) = 1

\* what the method op returns and leaves behind when called in state f
MethodOutcome(op, arg, f) ==
    CASE op = "register" -> register(f.configs, f.cache, CallerRules[arg[1]])
      [] op = "reset" -> reset(f.configs, f.cache, f.oid0)
      [] op = "clearCache" ->
             [configs |-> f.configs, cache |-> clearCache(f.configs, f.cache).cache,
              threw |-> Unset, logged |-> clearCache(f.configs, f.cache).logged]

Observers == {"getConfig", "getFamily"}

\* C16: getConfig and the derived accessors run only between the methods of
\* other callers, never inside one: the registry they read holds the five
\* defaults at its end and no cache entry for a rule that left the list; and
\* a method that returns leaves what the whole method makes of the state it
\* was entered in.
C16_MethodsIndivisible ==
    [][/\ (running' = running /\ last'.op \in Observers) =>
            /\ ~IsSet(running)
            /\ Len(configs) >= NumDefaults
            /\ Contents(SubSeq(configs, Len(configs) - NumDefaults + 1, Len(configs)))
                   = Contents(FreshConfigs)
            /\ \A model \in DOMAIN cache :
                   \E k \in 1..Len(configs) : cache[model] = configs[k]
       /\ (IsSet(running) /\ ~IsSet(running')) =>
            LET m == MethodOutcome(running[1].op, running[1].arg, running[1].from)
            IN  /\ configs' = m.configs
                /\ cache' = m.cache
                /\ last'.threw = m.threw
                /\ last'.logged = m.logged]_vars

\* C16 witness: a lookup on a registry that a reset() and then a register()
\* have run through
C16_Witness ==
    /\ last.op = "getConfig"
    /\ ~IsSet(running)
    /\ nextOid = FirstDefaultOid + 2 * NumDefaults
    /\ Len(configs) = NumDefaults + 1
    /\ configs[NumDefaults + 1].oid = FirstDefaultOid + NumDefaults
    /\ last.arg[1] \in DOMAIN cache

\* the statements that write this.configs or this.cache
StateChanging == {"unshift", "clear", "assign"}

\* the message of the debug call a method ends with
OwnMessage(op) ==
    CASE op = "register"   -> "Registered model config"
      [] op = "reset"      -> "Reset model configurations to defaults"
      [] op = "clearCache" -> "Cleared model configuration cache"

\* C20: a register() that throws has logged nothing and getConfig and the
\* accessors log nothing; a register(), reset() or clearCache() that returns
\* has logged its own debug event last; when a debug call runs, the
\* invocation it belongs to has no write to configs or cache left (for the
\* method the caller called: no write at all is left); every event is of
\* level debug.
C20_LogsFollowSuccess ==
    [][/\ (IsSet(running) /\ Head(running[1].todo).kind = "debug") =>
            LET s == Head(running[1].todo)
                rest == Tail(running[1].todo)
            IN  \A k \in 1..Len(rest) :
                    rest[k].kind \in StateChanging =>
                        (s.call # 0 /\ rest[k].call # s.call)
       /\ (IsSet(running) /\ ~IsSet(running')) =>
            /\ IsSet(last'.threw) => last'.logged = <<>>
            /\ ~IsSet(last'.threw) =>
                   /\ last'.logged # <<>>
                   /\ last'.logged[Len(last'.logged)] = Debug(OwnMessage(last'.op))
            /\ \A k \in 1..Len(last'.logged) : last'.logged[k].level = "debug"
       /\ last'.op \in Observers => last'.logged = <<>>]_vars

\* C20 witness: a register() that threw and logged nothing, on a registry
\* that a reset() has run through
C20_Witness ==
    /\ last.op = "register"
    /\ IsSet(last.threw)
    /\ last.logged = <<>>
    /\ ~IsSet(running)
    /\ Len(configs) = NumDefaults
    /\ configs[NumDefaults].oid = FirstDefaultOid + NumDefaults

\* C17: in every state getConfig(id) returns a rule for every identifier,
\* the empty string included, and no getConfig call has thrown.
C17_ResolutionTotal ==
    /\ \A model \in ModelIds \cup {Id_empty} :
           LET g == getConfig(configs, cache, lastIndex, model)
           IN  IsSet(g.ret) /\ ~IsSet(g.threw)
    /\ last.op = "getConfig" => (IsSet(last.ret) /\ ~IsSet(last.threw))

\* C17 witness: after a reset() and with the registry full of custom rules,
\* a lookup that no custom rule answers returned the fallback
C17_Witness ==
    /\ last.op = "getConfig"
    /\ Len(configs) = NumDefaults + MaxCustom
    /\ configs[Len(configs)].oid = FirstDefaultOid + NumDefaults
    /\ last.ret = Set(configs[Len(configs)])

\* C18: the rule list always ends with the five defaults in the order
\* gemini, gpt-4, o-series, claude, fallback, and getConfig(id) returns the
\* default fallback only when no rule before it matches id.
C18_CatchAllLast ==
    [][/\ Len(configs') >= NumDefaults
       /\ Contents(SubSeq(configs', Len(configs') - NumDefaults + 1, Len(configs')))
              = Contents(FreshConfigs)
       /\ (last'.op = "getConfig" /\ last'.ret = Set(configs[Len(configs)])) =>
              \A k \in 1..Len(configs) - 1 : ~Matches(configs[k], last'.arg[1])]_vars

\* C19 as stated: a call that fails raises a ConfigurationError carrying the
\* message of its failure.
C19_ConfigurationErrorKind ==
    IsSet(last.threw) =>
        /\ last.threw[1].name = "ConfigurationError"
        /\ last.op = "register" =>
               last.threw[1].message = "Model config must have either pattern or exactMatch"
        /\ last.op = "getConfig" =>
               /\ last.threw[1].message = "No configuration found for model: "
               /\ last.threw[1].model = last.arg[1]

\* C19: a call that fails raises a plain Error: register of a rule without a
\* matcher with the malformed-rule message, and the not-found branch of
\* getConfig, run on a rule list without a matching rule, with the not-found
\* message followed by the identifier.
C19_PlainError ==
    /\ IsSet(last.threw) =>
           /\ last.threw[1].name = "Error"
           /\ last.op = "register" =>
                  last.threw[1].message = "Model config must have either pattern or exactMatch"
           /\ last.op = "getConfig" =>
                  /\ last.threw[1].message = "No configuration found for model: "
                  /\ last.threw[1].model = last.arg[1]
    /\ \A model \in ModelIds :
           getConfig(<<CallerRules[6]>>, EmptyCache, lastIndex, model).threw
               = Set([name |-> "Error", message |-> "No configuration found for model: ",
                      model |-> model])

\* C19 witness: register of the rule with an empty-string exactMatch and no
\* pattern raised the plain Error
C19_Witness ==
    /\ last.op = "register"
    /\ last.arg = Set(6)
    /\ IsSet(last.threw)
    /\ last.threw[1].name = "Error"

\* the most statements a method has: those of reset()
MaxStmts == Len(resetStmts(0))

\* C21: a method that was entered returns or throws.  getConfig examines the
\* rules one index after the other, each once, from the first, and stops at
\* the first rule that answers or after the last rule, with the result of
\* the whole getConfig; each statement of register, reset and clearCache
\* runs once, and no method has more statements than reset().
C21_OperationsTerminate ==
    /\ [][/\ (IsSet(running) /\ running[1].op = "getConfig") =>
               LET m == running[1]
                   g == getConfig(m.from.configs, m.from.cache, m.from.lastIndex,
                                  m.arg[1])
               IN  /\ m.i <= Len(configs) + 1
                   /\ configs' = configs
                   /\ IsSet(running') => running'[1].i = m.i + 1
                   /\ ~IsSet(running') =>
                          /\ last'.ret = g.ret
                          /\ last'.threw = g.threw
                          /\ cache' = g.cache
                          /\ lastIndex' = g.lastIndex
                          /\ (m.i >= 1 /\ IsSet(last'.ret)) =>
                                 last'.ret = Set(configs[m.i])
                          /\ IsSet(last'.threw) => m.i = Len(configs) + 1
          /\ (IsSet(running) /\ running[1].op # "getConfig") =>
               /\ Len(running[1].todo) <= MaxStmts
               /\ IsSet(running') =>
                      Len(running'[1].todo) = Len(running[1].todo) - 1]_vars
    /\ (IsSet(running) ~> ~IsSet(running))

\* C21 witness: a getConfig that went through every rule of a list with a
\* custom rule in it and returned the fallback
C21_Witness ==
    /\ last.op = "getConfig"
    /\ ~IsSet(running)
    /\ Len(configs) = NumDefaults + 1
    /\ last.ret = Set(configs[Len(configs)])
    /\ nextOid = FirstDefaultOid + 2 * NumDefaults

\* C22: createRequest(model) gives a request without messages; while only
\* addMessage has been called on it, its messages are the arguments of those
\* calls in call order, each as often as it was passed, and each call adds
\* its message at the end; the model is the one given at creation.
C22_MessagesInCallOrder ==
    [][/\ last'.op = "createRequest" =>
              /\ MessagesOf(request'[1]) = <<>>
              /\ request'[1].model = last'.arg[1]
       /\ (last'.op = "addMessage" /\ ~IsSet(request[1].own)) =>
              /\ MessagesOf(request'[1]) = Append(MessagesOf(request[1]), last'.arg[1])
              /\ MessagesOf(request'[1]) = request'[1].added
              /\ request'[1].model = request[1].model]_vars

\* C22 witness: three messages were added, the first one twice
C22_Witness ==
    /\ IsSet(request)
    /\ ~IsSet(request[1].own)
    /\ Len(MessagesOf(request[1])) >= 3
    /\ MessagesOf(request[1])[1] = MessagesOf(request[1])[3]
    /\ MessagesOf(request[1])[1] # MessagesOf(request[1])[2]
    /\ request[1].model = "claude-3-opus"

\* the logger the constructor or wrapLogger was given
Given(call) ==
    IF call.op = "constructor" /\ ~IsSet(call.arg) THEN DEFAULT_LOGGER ELSE call.arg[1]

\* C23: wrapLogger, called directly or by the constructor, raises the
\* incomplete-logger error exactly when the object lacks one of the six
\* operations, and then returns no wrapper; every wrapper that exists has a
\* target with all six, and no call through a wrapper fails.
C23_WrapLoggerFailsFast ==
    /\ IsSet(logger) => LogLevels \subseteq logger[1].wrapper.target.methods
    /\ (last.op \in {"wrapLogger", "constructor"} /\ LogLevels \subseteq Given(last).methods)
           => ~IsSet(last.threw)
    /\ (last.op \in {"wrapLogger", "constructor"}
            /\ ~(LogLevels \subseteq Given(last).methods))
           => last.threw = Set([name |-> "Error",
                                message |-> "Logger is missing required methods"])
    /\ last.op = "log" => ~IsSet(last.threw)

\* C23 witness: an object with five of the six operations was refused, while
\* the wrapper made earlier has written a line
C23_Witness ==
    /\ last.op = "wrapLogger"
    /\ Cardinality(last.arg[1].methods) = 5
    /\ IsSet(last.threw)
    /\ IsSet(logger)
    /\ Len(logger[1].lines) > 0

\* C24: after a successful register(r) the rule list is r followed by the
\* old list, also when the old list holds r already, and the cache is empty.
C24_RegisterPrepends ==
    [][(last'.op = "register" /\ ~IsSet(last'.threw)) =>
           /\ configs' = <<CallerRules[last'.arg[1]]>> \o configs
           /\ Len(configs') = Len(configs) + 1
           /\ cache' = EmptyCache]_vars

\* C24 witness: the rule registered last is in the list twice
C24_Witness ==
    /\ last.op = "register" /\ ~IsSet(last.threw)
    /\ Len(configs) >= NumDefaults + 2
    /\ configs[1] = CallerRules[last.arg[1]]
    /\ configs[2] = configs[1]
    /\ cache = EmptyCache

\* C25: getConfig(id) leaves the rule list as it is; on a cache hit it leaves
\* the cache and every lastIndex as they are; on a miss that returns a rule
\* the cache gains the entry id -> that rule and keeps its other entries; a
\* getConfig that throws leaves the cache as it is, as the not-found branch
\* does on a rule list without a matching rule.
C25_GetConfigFrame ==
    [][last'.op = "getConfig" =>
           LET model == last'.arg[1]
           IN  /\ configs' = configs
               /\ model \in DOMAIN cache =>
                      /\ cache' = cache
                      /\ lastIndex' = lastIndex
                      /\ last'.ret = Set(cache[model])
               /\ (model \notin DOMAIN cache /\ IsSet(last'.ret)) =>
                      /\ DOMAIN cache' = DOMAIN cache \cup {model}
                      /\ cache'[model] = last'.ret[1]
                      /\ \A k \in DOMAIN cache : cache'[k] = cache[k]
               /\ IsSet(last'.threw) => cache' = cache
               /\ model \notin DOMAIN cache =>
                      LET g == getConfig(<<CallerRules[6]>>, cache, lastIndex, model)
                      IN  IsSet(g.threw) /\ g.cache = cache]_vars

\* C25 witness: a lookup added its identifier to a cache that held two others
C25_Witness ==
    /\ last.op = "getConfig"
    /\ Cardinality(DOMAIN cache) = 3
    /\ cache[last.arg[1]] = last.ret[1]
    /\ Len(configs) > NumDefaults

\* C26 as stated: a rule with an exactMatch is returned, and cached, only
\* for the identifier equal to its exactMatch.
C26_ExactMatchOnly ==
    /\ (last.op = "getConfig" /\ IsSet(last.ret) /\ IsSet(last.ret[1].exactMatch)) =>
           last.ret[1].exactMatch[1] = last.arg[1]
    /\ \A model \in DOMAIN cache :
           IsSet(cache[model].exactMatch) => cache[model].exactMatch[1] = model

\* C26: on a cache miss a first rule whose exactMatch equals the identifier
\* is returned whatever its pattern; a rule with an exactMatch and no pattern
\* is returned only for that identifier; a rule with both is also returned
\* for an identifier that differs from its exactMatch when its pattern
\* matches it, and only then.
C26_ExactMatchThenPattern ==
    [][(last'.op = "getConfig" /\ last'.arg[1] \notin DOMAIN cache)=>
           LET model == last'.arg[1]
               r == last'.ret[1]
               first == configs[1]
           IN  /\ (TruthyString(first.exactMatch) /\ first.exactMatch[1] = model) =>
                      last'.ret = Set(first)
               /\ (IsSet(last'.ret) /\ IsSet(r.exactMatch) /\ ~IsSet(r.pattern)) =>
                      r.exactMatch[1] = model
               /\ (IsSet(last'.ret) /\ IsSet(r.exactMatch) /\ r.exactMatch[1] # model) =>
                      IsSet(r.pattern) /\ PatternMatches(r.pattern[1], model)
               /\ (Both(first) /\ first.exactMatch[1] # model
                       /\ ~first.pattern[1].global
                       /\ PatternMatches(first.pattern[1], model)) =>
                      last'.ret = Set(first)]_vars

\* C26 witness: the rule with exactMatch "gpt-4o" and pattern /^my/i was
\* returned for "my-model"
C26_Witness ==
    /\ last.op = "getConfig"
    /\ last.arg = Set(Id_mymodel)
    /\ last.ret = Set(CallerRules[4])
    /\ CallerRules[4].exactMatch = Set(Id_gpt4o)

\* two identifiers that differ in letter case only
SameIgnoringCase(a, b) ==
    /\ Len(a) = Len(b)
    /\ \A i \in 1..Len(a) : ToLower(a[i]) = ToLower(b[i])

C28_CacheCoherent ==
    \A model \in DOMAIN cache :
        /\ \E i \in 1..Len(configs) : configs[i] = cache[model]
        /\ LET hits == {i \in 1..Len(configs) : Matches(configs[i], model)}
           IN  hits # {} /\ cache[model] = configs[Min(hits)]

\* the caller's universal pattern is in the rule list at index i
UniversalAt(cfgs, i) == i \in 1..Len(cfgs) /\ cfgs[i] = CallerRules[7]

\* C29: registration order alone decides.  On a cache miss, when the most
\* recently registered rule is a pattern rule whose pattern matches the
\* identifier and an exactMatch rule for the identifier was registered
\* before it, the pattern rule is returned; while the caller's universal
\* pattern is in the list no rule behind it is returned, a default least of
\* all; reset() leaves the defaults only.
C29_RegistrationOrderDecides ==
    [][/\ (last'.op = "getConfig" /\ last'.arg[1] \notin DOMAIN cache) =>
              LET model == last'.arg[1]
                  first == configs[1]
              IN  /\ (/\ TruthyObject(first.pattern)
                      /\ ~TruthyString(first.exactMatch)
                      /\ PatternMatches(first.pattern[1], model)
                      /\ \E j \in 2..Len(configs) :
                             /\ TruthyString(configs[j].exactMatch)
                             /\ configs[j].exactMatch[1] = model) =>
                         last'.ret = Set(first)
                  /\ \A i \in 1..Len(configs) : UniversalAt(configs, i) =>
                         \E k \in 1..i : last'.ret = Set(configs[k])
       /\ last'.op = "reset" =>
              /\ Len(configs') = NumDefaults
              /\ \A i \in 1..Len(configs') : ~UniversalAt(configs', i)]_vars

\* the positions of the four family rules on a registry with the defaults
\* only: every position but the last, which the catch-all holds
FamilyPositions == 1..(NumDefaults - 1)

\* the rule list with its family rules in the order pi and the catch-all
\* left last
Reordered(cfgs, pi) ==
    [i \in 1..Len(cfgs) |-> IF i \in DOMAIN pi THEN cfgs[pi[i]] ELSE cfgs[i]]

\* C30: on a registry with the defaults only no identifier matches more
\* than one of the four family rules, and what getConfig returns for an
\* identifier, and the encoding getEncoding derives from it, is what a scan
\* returns with the four family rules in any order, the catch-all staying
\* last.
C30_FamiliesDisjoint ==
    /\ Len(configs) = NumDefaults
    /\ configs[NumDefaults].family = Set("unknown")
    /\ \A model \in ProbeIds :
           Cardinality({i \in FamilyPositions : Matches(configs[i], model)}) <= 1
    /\ \A model \in ProbeIds : \A pi \in Permutations(FamilyPositions) :
           scan(Reordered(configs, pi), 1, lastIndex, model).found
               = scan(configs, 1, lastIndex, model).found
    /\ (last.op = "getConfig" /\ IsSet(last.ret)) =>
           \A pi \in Permutations(FamilyPositions) :
               last.ret = scan(Reordered(configs, pi), 1, lastIndex, last.arg[1]).found
    /\ (last.op = "getEncoding" /\ IsSet(last.ret)) =>
           \A pi \in Permutations(FamilyPositions) :
               last.ret = Set(scan(Reordered(configs, pi), 1, lastIndex,
                                   last.arg[1]).found[1].encoding)

\* C30 witness: an identifier resolved to the claude rule, the last of the
\* four family rules in the list
C30_Witness ==
    /\ last.op = "getConfig"
    /\ IsSet(last.ret) /\ last.ret[1].family = Set("claude")
    /\ configs[NumDefaults - 1] = last.ret[1]
    /\ Len(configs) = NumDefaults

====
